---- MODULE Spec2Model ----
(***************************************************************************)
(* Model of the Byparr-header request pipeline: src/main.py (the POST /v1  *)
(* handler read_item and its collaborators' observable behaviour) and      *)
(* src/src/models/requests.py (LinkRequest, Solution, LinkResponse).       *)
(*                                                                         *)
(* Strings the code inspects character by character (the request url) are  *)
(* tuples of one-character strings.  Python's None is the empty tuple and  *)
(* a present Optional value x is the one-element tuple <<x>>, so that None *)
(* differs from the empty list and from the empty dict.                    *)
(***************************************************************************)
EXTENDS Integers, Sequences, FiniteSets, TLC

VARIABLES
    now,                 \* time.time() * 1000, saturating at MaxTime
    endTimestampDefault, \* LinkResponse.endTimestamp's default value
    cookies,             \* module-level `cookies` of main.py
    screenshots,         \* diagnostic artifacts written by the process
    pool,                \* worker threads serving POST /v1
    clients,             \* the requests clients may send
    world,               \* what the browser's calls may return or raise
    pc,                  \* per worker: position in read_item
    route,               \* per worker: the endpoint being served
    health,              \* per worker: body returned by GET /health
    request,             \* per worker: the LinkRequest
    start_time,          \* per worker: local start_time
    invalid_start,       \* per worker: startTimestamp read in LinkResponse.invalid
    sb,                  \* per worker: browser session "none"|"running"|"terminated"
    opened,              \* per worker: urls passed to uc_open_with_reconnect
    jar,                 \* per worker: cookies seeded into the session
    attempt,             \* per worker: loop variable of the detection loop
    seen,                \* per worker: page sources fetched by the detection loop
    clicks,              \* per worker: uc_gui_click_captcha calls
    last_click,          \* per worker: outcome of the last click
    sleeps,              \* per worker: time.sleep(3) calls
    cloudflare_cookies,  \* per worker: local cloudflare_cookies
    cf_clearance,        \* per worker: local cf_clearance
    challenge_detected,  \* per worker: local challenge_detected
    fetched,             \* per worker: scripts run by execute_script
    replay,              \* per worker: outcome of the replay step
    source,              \* per worker: local source
    status,              \* per worker: local status
    exc,                 \* per worker: exception caught by the outer except
    response,            \* per worker: LinkResponse returned
    raised               \* per worker: error propagated out of the handler

globals == <<now, endTimestampDefault, cookies, screenshots, pool, clients,
             world>>
loopvars == <<attempt, seen, clicks, last_click, sleeps, cloudflare_cookies,
              cf_clearance, challenge_detected>>
replayvars == <<fetched, replay, source, status>>
outvars == <<exc, response, raised>>
routevars == <<route, health>>
vars == <<globals, pc, routevars, request, start_time, invalid_start, sb, opened, jar,
          loopvars, replayvars, outvars>>

(***************************************************************************)
(* Bounds and program constants                                            *)
(***************************************************************************)
MaxTime == 2

max_retries == 3

SleepSeconds == 3

Threads == {1, 2}

None == <<>>

Some(x) == <<x>>

Min(a, b) == IF a <= b THEN a ELSE b

(***************************************************************************)
(* Strings as character tuples                                             *)
(***************************************************************************)
UrlHttpsPath == <<"h","t","t","p","s",":","/","/","a","/","b">>

UrlHttp == <<"h","t","t","p",":","/","/","a">>

UrlNearMiss == <<"h","t","t","p",":","/","a">>

UrlFtp == <<"f","t","p",":","/","/","a">>

Urls == {UrlHttpsPath, UrlHttp, UrlNearMiss, UrlFtp}

\* str.startswith
startswith(s, p) == Len(s) >= Len(p) /\ SubSeq(s, 1, Len(p)) = p

\* str.split(sep) for a one-character separator
RECURSIVE split(_, _)
split(s, sep) ==
    IF \E i \in 1..Len(s) : s[i] = sep
    THEN LET i == CHOOSE k \in 1..Len(s) :
                      s[k] = sep /\ \A j \in 1..(k - 1) : s[j] # sep
         IN  <<SubSeq(s, 1, i - 1)>> \o split(SubSeq(s, i + 1, Len(s)), sep)
    ELSE <<s>>

\* sep.join(parts)
RECURSIVE join(_, _)
join(sep, parts) ==
    IF parts = <<>> THEN <<>>
    ELSE IF Len(parts) = 1 THEN parts[1]
    ELSE parts[1] \o <<sep>> \o join(sep, Tail(parts))

\* seq[:n]
Take(seq, n) == SubSeq(seq, 1, Min(n, Len(seq)))

(***************************************************************************)
(* src/src/models/requests.py                                              *)
(***************************************************************************)
HeaderSets == {None, Some([Accept |-> "json"])}

PostDatas == {None, Some(<<>>), Some([q |-> "x"])}

Cmds == {"request.get", "request.post", "request.put"}

\* class LinkRequest
LinkRequest ==
    [url : Urls, max_timeout : {1, 60}, cmd : Cmds, headers : HeaderSets,
     postData : PostDatas]

NoRequest ==
    [url |-> <<>>, max_timeout |-> 60, cmd |-> "request.get",
     headers |-> None, postData |-> None]

VERSION == "consts.VERSION"

INTERNAL_SERVER_ERROR == 500

OK == 200

\* class Solution
Solution(url, st, cks, userAgent, headers, resp) ==
    [url |-> url, status |-> st, cookies |-> cks, userAgent |-> userAgent,
     headers |-> headers, response |-> resp]

\* Solution.invalid
Solution_invalid(url) ==
    Solution(url, INTERNAL_SERVER_ERROR, <<>>, "", <<>>, "")

\* LinkResponse(...) with every field given
LinkResponseFull(st, message, solution, startTimestamp, endTimestamp) ==
    [status |-> st, message |-> message, solution |-> solution,
     startTimestamp |-> startTimestamp, endTimestamp |-> endTimestamp,
     version |-> VERSION]

\* LinkResponse(message=, solution=, startTimestamp=): status and endTimestamp
\* take the class defaults; the endTimestamp default was computed once, when
\* the class body ran
LinkResponse(message, solution, startTimestamp, classDefault) ==
    LinkResponseFull("ok", message, solution, startTimestamp, classDefault)

\* LinkResponse.invalid; t1 and t2 are its two successive clock reads
LinkResponse_invalid(url, t1, t2) ==
    LinkResponseFull("error", "Invalid request", Solution_invalid(url), t1, t2)

\* raise HTTPException(status_code=500, detail=...)
HTTPException(detail) == [status_code |-> 500, detail |-> detail]

(***************************************************************************)
(* src/main.py: pure parts of read_item                                    *)
(***************************************************************************)
SchemeHttp == <<"h","t","t","p",":","/","/">>

SchemeHttps == <<"h","t","t","p","s",":","/","/">>

\* variant: only the "http" prefix is compared
IsHttpUrl_prefixOnly(url) == startswith(url, <<"h","t","t","p">>)

\* line 56: request.url.startswith("http://") or ...("https://")
IsHttpUrl(url) == startswith(url, SchemeHttp) \/ startswith(url, SchemeHttps)

\* variant: the session is sent to the request url itself
bypass_url_full(url) == url

\* line 73: "/".join(request.url.split("/")[:3])
bypass_url(url) == join("/", Take(split(url, "/"), 3))

\* src.utils.consts.CHALLENGE_TITLES
CHALLENGE_TITLES == {"Just a moment...", "DDoS-Guard"}

HtmlChallenge == "<title>Just a moment...</title>"

HtmlReal == "<title>Example Domain</title><p>content</p>"

HtmlNested == "<title><b>Example</b></title>"

HtmlBlank == "<body>plain</body>"

\* what sb.get_page_source() can return
Pages == {HtmlChallenge, HtmlReal, HtmlNested, HtmlBlank}

\* BeautifulSoup(source, "html.parser").title: None when there is no <title>,
\* else the tag, given by its .string (None when the tag has child tags)
title_tag(src) ==
    CASE src = HtmlChallenge -> Some(Some("Just a moment..."))
      [] src = HtmlReal      -> Some(Some("Example Domain"))
      [] src = HtmlNested    -> Some(None)
      [] OTHER               -> None

\* variant: a page without a title counts as a challenge
IsChallenge_missingTitle(tag) ==
    \/ tag = None
    \/ /\ tag # None
       /\ tag[1] # None
       /\ tag[1][1] \in CHALLENGE_TITLES

\* line 94: title_tag and title_tag.string in CHALLENGE_TITLES
IsChallenge(tag) ==
    /\ tag # None
    /\ tag[1] # None
    /\ tag[1][1] \in CHALLENGE_TITLES

CookieSid == [name |-> "sid", value |-> "1"]

CookieCf == [name |-> "cf_clearance", value |-> "tok"]

\* what sb.get_cookies() can return
Jars == {<<>>, <<CookieSid>>, <<CookieSid, CookieCf>>}

\* line 98: next((c['value'] for c in cookies if c['name'] == 'cf_clearance'), None)
find_cf_clearance(cks) ==
    IF \E i \in 1..Len(cks) : cks[i].name = "cf_clearance"
    THEN Some(cks[CHOOSE i \in 1..Len(cks) :
                    /\ cks[i].name = "cf_clearance"
                    /\ \A j \in 1..(i - 1) : cks[j].name # "cf_clearance"].value)
    ELSE None

\* `not x` for an Optional list or dict: None and the empty container are falsy
Falsy(x) == x = None \/ x[1] = <<>>

\* variant: any request with a body is replayed
IsSubmission_bodyOnly(req) == ~Falsy(req.postData)

\* line 122: request.cmd == "request.post" and request.postData
IsSubmission(req) == req.cmd = "request.post" /\ ~Falsy(req.postData)

\* line 127: '; '.join(f"{name}={value}" ...)
RECURSIVE cookie_str(_)
cookie_str(cks) ==
    IF cks = <<>> THEN ""
    ELSE IF Len(cks) = 1 THEN cks[1].name \o "=" \o cks[1].value
    ELSE cks[1].name \o "=" \o cks[1].value \o "; " \o cookie_str(Tail(cks))

\* dict.update for one key
dict_update(d, k, v) ==
    [x \in DOMAIN d \cup {k} |-> IF x = k THEN v ELSE d[x]]

UserAgent == "Mozilla/5.0"

\* lines 126-133: the headers of the in-browser fetch
replay_headers(req, cks) ==
    LET copy == IF Falsy(req.headers) THEN <<>> ELSE req.headers[1]
    IN  dict_update(dict_update(copy, "Cookie", cookie_str(cks)),
                    "User-Agent", UserAgent)

\* lines 138-190: the script, given by the fetch it issues
script(req, cks) ==
    [url |-> req.url, method |-> "POST", headers |-> replay_headers(req, cks),
     body |-> req.postData[1]]

\* what the script can return: the fetch's outcome, the catch branch's
\* outcome, or nothing
ResultOk ==
    [status |-> 200, text |-> "{\"ok\": true}", ok |-> TRUE,
     headers |-> [server |-> "x"]]

ResultForbidden ==
    [status |-> 403, text |-> HtmlChallenge, ok |-> FALSE,
     headers |-> [server |-> "x"]]

ResultCatch ==
    [status |-> 500, text |-> "TypeError: Failed to fetch", ok |-> FALSE,
     headers |-> <<>>]

ScriptResults == {Some(ResultOk), Some(ResultForbidden), Some(ResultCatch), None}

\* what str(e) can be for an exception a collaborator raises
ErrTexts == {"Message: timeout", "Message: no such window"}

AttributeErrorText == "'NoneType' object has no attribute 'get'"

\* dict.get(key, default)
dict_get(d, k, default) == IF k \in DOMAIN d THEN d[k] ELSE default

\* variant: the except branch leaves status at 200
replay_status_ok(result) ==
    IF result = None THEN 200 ELSE dict_get(result[1], "status", 500)

\* lines 199-200 and 206-209: source and status the replay step leaves
replay_source(result) ==
    IF result = None THEN AttributeErrorText ELSE dict_get(result[1], "text", "")

replay_status(result) ==
    IF result = None THEN 500 ELSE dict_get(result[1], "status", 500)

\* variant: the replay's headers were written into request.headers itself
solution_headers_aliased(req) == replay_headers(req, <<>>)

\* line 221: request.headers if request.headers else {}
solution_headers(req) == IF Falsy(req.headers) THEN <<>> ELSE req.headers[1]

\* line 250
raise_captcha_bypass_error == HTTPException("Could not bypass challenge")

(***************************************************************************)
(* The browser session (seleniumbase SB), seen from read_item              *)
(***************************************************************************)
\* sb.driver.quit()
driver_quit(session) == IF session = "running" THEN "terminated" ELSE session

\* variant: leaving the block does not end the session
SB_exit_leak(session) == session

\* leaving the `with SB(...)` block
SB_exit(session) == IF session = "running" THEN "terminated" ELSE session

\* sb.get_current_url(): the session shows the page it was sent to
current_url(r) == opened[r][Len(opened[r])]

(***************************************************************************)
(* State                                                                   *)
(***************************************************************************)
\* every page, cookie jar, script result and error of the model
AnyOutcome ==
    [pages |-> Pages, jars |-> Jars, results |-> ScriptResults,
     errors |-> ErrTexts]

\* the process `uptime` ms after import, serving with the worker threads
\* `threads` the requests `sent`, the browser's calls answering from `browser`
Setup(threads, sent, uptime, browser) ==
    /\ now = uptime
    /\ world = browser
    /\ endTimestampDefault = 0
    /\ cookies = <<>>
    /\ screenshots = 0
    /\ pool = threads
    /\ clients = sent
    /\ pc = [r \in Threads |-> "idle"]
    /\ route = [r \in Threads |-> ""]
    /\ health = [r \in Threads |-> None]
    /\ request = [r \in Threads |-> NoRequest]
    /\ start_time = [r \in Threads |-> 0]
    /\ invalid_start = [r \in Threads |-> 0]
    /\ sb = [r \in Threads |-> "none"]
    /\ opened = [r \in Threads |-> <<>>]
    /\ jar = [r \in Threads |-> <<>>]
    /\ attempt = [r \in Threads |-> 0]
    /\ seen = [r \in Threads |-> <<>>]
    /\ clicks = [r \in Threads |-> 0]
    /\ last_click = [r \in Threads |-> "none"]
    /\ sleeps = [r \in Threads |-> 0]
    /\ cloudflare_cookies = [r \in Threads |-> None]
    /\ cf_clearance = [r \in Threads |-> None]
    /\ challenge_detected = [r \in Threads |-> FALSE]
    /\ fetched = [r \in Threads |-> <<>>]
    /\ replay = [r \in Threads |-> "none"]
    /\ source = [r \in Threads |-> ""]
    /\ status = [r \in Threads |-> 0]
    /\ exc = [r \in Threads |-> None]
    /\ response = [r \in Threads |-> None]
    /\ raised = [r \in Threads |-> None]

\* LinkRequest.max_timeout defaults to 60
DefaultTimeout == {q \in LinkRequest : q.max_timeout = 60}

Init == Setup({1}, DefaultTimeout, 0, AnyOutcome)

\* the clock moves on between any two steps
Tick ==
    /\ now < MaxTime
    /\ now' = now + 1
    /\ UNCHANGED <<endTimestampDefault, cookies, screenshots, pool, clients, world>>
    /\ UNCHANGED <<pc, routevars, request, start_time, invalid_start, sb,
                   opened, jar, loopvars, replayvars, outvars>>

\* an exception reaches the handler's `except Exception as e`
Catch(r, e) ==
    /\ exc' = [exc EXCEPT ![r] = Some(e)]
    /\ pc' = [pc EXCEPT ![r] = "except"]

(***************************************************************************)
(* read_item, lines 51-57                                                  *)
(***************************************************************************)
\* lines 53-57: the call of read_item(request)
Enter(r, req) ==
    /\ request' = [request EXCEPT ![r] = req]
    /\ start_time' = [start_time EXCEPT ![r] = now]
    /\ pc' = [pc EXCEPT ![r] = IF IsHttpUrl(req.url) THEN "acquire"
                                ELSE "invalid_start"]

Receive(r, req) ==
    /\ pc[r] = "idle"
    /\ r \in pool
    /\ req \in clients
    /\ route' = [route EXCEPT ![r] = "/v1"]
    /\ Enter(r, req)
    /\ UNCHANGED <<globals, health, invalid_start, sb, opened, jar, loopvars,
                   replayvars, outvars>>

\* LinkResponse.invalid: startTimestamp=int(time.time() * 1000)
InvalidStart(r) ==
    /\ pc[r] = "invalid_start"
    /\ invalid_start' = [invalid_start EXCEPT ![r] = now]
    /\ pc' = [pc EXCEPT ![r] = "invalid_end"]
    /\ UNCHANGED <<globals, routevars, request, start_time, sb, opened, jar, loopvars,
                   replayvars, outvars>>

\* LinkResponse.invalid: endTimestamp=int(time.time() * 1000), then return
InvalidEnd(r) ==
    /\ pc[r] = "invalid_end"
    /\ response' = [response EXCEPT ![r] =
           Some(LinkResponse_invalid(request[r].url, invalid_start[r], now))]
    /\ pc' = [pc EXCEPT ![r] = "done"]
    /\ UNCHANGED <<globals, routevars, request, start_time, invalid_start, sb, opened,
                   jar, loopvars, replayvars, exc, raised>>

(***************************************************************************)
(* read_item, lines 61-77                                                  *)
(***************************************************************************)
\* with SB(...) as sb: the session starts, or SB raises outside the try and
\* the server answers with its own 500
Acquire(r) ==
    /\ pc[r] = "acquire"
    /\ \/ /\ sb' = [sb EXCEPT ![r] = "running"]
          /\ pc' = [pc EXCEPT ![r] = "navigate"]
          /\ UNCHANGED raised
       \/ /\ raised' = [raised EXCEPT ![r] =
                 Some(HTTPException("Internal Server Error"))]
          /\ pc' = [pc EXCEPT ![r] = "done"]
          /\ UNCHANGED sb
    /\ UNCHANGED <<globals, routevars, request, start_time, invalid_start, opened, jar,
                   loopvars, replayvars, exc, response>>

\* sb.uc_open_with_reconnect(bypass_url)
Navigate(r) ==
    /\ pc[r] = "navigate"
    /\ opened' = [opened EXCEPT ![r] = Append(@, bypass_url(request[r].url))]
    /\ \/ /\ pc' = [pc EXCEPT ![r] = "detect"]
          /\ UNCHANGED exc
       \/ \E e \in world.errors : Catch(r, e)
    /\ UNCHANGED <<globals, routevars, request, start_time, invalid_start, sb, jar,
                   loopvars, replayvars, response, raised>>

(***************************************************************************)
(* read_item, lines 85-111: the detection loop                             *)
(***************************************************************************)
\* variant: the clear branch has no break and falls through to the click
Detect_noBreak(r) ==
    /\ pc[r] = "detect"
    /\ \/ /\ \E e \in world.errors : Catch(r, e)
          /\ UNCHANGED <<seen, source, cloudflare_cookies, cf_clearance,
                         challenge_detected>>
       \/ \E page \in world.pages :
            /\ seen' = [seen EXCEPT ![r] = Append(@, page)]
            /\ source' = [source EXCEPT ![r] = page]
            /\ challenge_detected' = [challenge_detected EXCEPT ![r] = TRUE]
            /\ pc' = [pc EXCEPT ![r] = "click"]
            /\ UNCHANGED exc
            /\ IF ~IsChallenge(title_tag(page))
               THEN \E cks \in world.jars :
                      /\ cloudflare_cookies' =
                             [cloudflare_cookies EXCEPT ![r] = Some(cks)]
                      /\ cf_clearance' =
                             [cf_clearance EXCEPT ![r] = find_cf_clearance(cks)]
               ELSE UNCHANGED <<cloudflare_cookies, cf_clearance>>
    /\ UNCHANGED <<globals, routevars, request, start_time, invalid_start, sb,
                   opened, jar, attempt, clicks, last_click, sleeps, fetched,
                   replay, status, response, raised>>

\* lines 86-102: one detection check
Detect(r) ==
    /\ pc[r] = "detect"
    /\ \/ /\ \E e \in world.errors : Catch(r, e)
          /\ UNCHANGED <<seen, source, cloudflare_cookies, cf_clearance,
                         challenge_detected>>
       \/ \E page \in world.pages :
            /\ seen' = [seen EXCEPT ![r] = Append(@, page)]
            /\ source' = [source EXCEPT ![r] = page]
            /\ IF ~IsChallenge(title_tag(page))
               THEN /\ UNCHANGED challenge_detected
                    /\ \/ \E cks \in world.jars :
                            /\ cloudflare_cookies' =
                                   [cloudflare_cookies EXCEPT ![r] = Some(cks)]
                            /\ cf_clearance' =
                                   [cf_clearance EXCEPT ![r] = find_cf_clearance(cks)]
                            /\ pc' = [pc EXCEPT ![r] = "after_loop"]
                            /\ UNCHANGED exc
                       \/ /\ \E e \in world.errors : Catch(r, e)
                          /\ UNCHANGED <<cloudflare_cookies, cf_clearance>>
               ELSE /\ challenge_detected' = [challenge_detected EXCEPT ![r] = TRUE]
                    /\ pc' = [pc EXCEPT ![r] = "click"]
                    /\ UNCHANGED <<cloudflare_cookies, cf_clearance, exc>>
    /\ UNCHANGED <<globals, routevars, request, start_time, invalid_start, sb, opened,
                   jar, attempt, clicks, last_click, sleeps, fetched, replay,
                   status, response, raised>>

\* variant: a failed click reaches the outer except
Click_abort(r) ==
    /\ pc[r] = "click"
    /\ clicks' = [clicks EXCEPT ![r] = @ + 1]
    /\ \/ /\ last_click' = [last_click EXCEPT ![r] = "ok"]
          /\ pc' = [pc EXCEPT ![r] = "sleep"]
          /\ UNCHANGED exc
       \/ /\ last_click' = [last_click EXCEPT ![r] = "raised"]
          /\ \E e \in world.errors : Catch(r, e)
    /\ UNCHANGED <<globals, routevars, request, start_time, invalid_start, sb,
                   opened, jar, attempt, seen, sleeps, cloudflare_cookies,
                   cf_clearance, challenge_detected, replayvars, response,
                   raised>>

\* lines 104-108: the click; its exception is logged and dropped
Click(r) ==
    /\ pc[r] = "click"
    /\ clicks' = [clicks EXCEPT ![r] = @ + 1]
    /\ \E outcome \in {"ok", "raised"} :
           last_click' = [last_click EXCEPT ![r] = outcome]
    /\ pc' = [pc EXCEPT ![r] = "sleep"]
    /\ UNCHANGED <<globals, routevars, request, start_time, invalid_start, sb, opened,
                   jar, attempt, seen, sleeps, cloudflare_cookies,
                   cf_clearance, challenge_detected, replayvars, outvars>>

\* variant: the loop runs one turn more than max_retries
Sleep_extraTurn(r) ==
    /\ pc[r] = "sleep"
    /\ sleeps' = [sleeps EXCEPT ![r] = @ + 1]
    /\ now' = Min(now + SleepSeconds * 1000, MaxTime)
    /\ IF attempt[r] + 1 <= max_retries
       THEN /\ attempt' = [attempt EXCEPT ![r] = @ + 1]
            /\ pc' = [pc EXCEPT ![r] = "detect"]
       ELSE /\ pc' = [pc EXCEPT ![r] = "after_loop"]
            /\ UNCHANGED attempt
    /\ UNCHANGED <<endTimestampDefault, cookies, screenshots, pool, clients,
                   world, routevars, request, start_time, invalid_start, sb, opened,
                   jar, seen, clicks, last_click, cloudflare_cookies,
                   cf_clearance, challenge_detected, replayvars, outvars>>

\* line 110, then the next turn of `for attempt in range(max_retries)`
Sleep(r) ==
    /\ pc[r] = "sleep"
    /\ sleeps' = [sleeps EXCEPT ![r] = @ + 1]
    /\ now' = Min(now + SleepSeconds * 1000, MaxTime)
    /\ IF attempt[r] + 1 < max_retries
       THEN /\ attempt' = [attempt EXCEPT ![r] = @ + 1]
            /\ pc' = [pc EXCEPT ![r] = "detect"]
       ELSE /\ pc' = [pc EXCEPT ![r] = "after_loop"]
            /\ UNCHANGED attempt
    /\ UNCHANGED <<endTimestampDefault, cookies, screenshots, pool, clients,
                   world, routevars, request, start_time, invalid_start, sb, opened, jar, seen,
                   clicks, last_click, cloudflare_cookies, cf_clearance,
                   challenge_detected, replayvars, outvars>>

(***************************************************************************)
(* read_item, lines 113-212: cookies, then replay or render                *)
(***************************************************************************)
\* lines 114-122: `if not cloudflare_cookies` holds for None and for []
AfterLoop(r) ==
    /\ pc[r] = "after_loop"
    /\ IF Falsy(cloudflare_cookies[r])
       THEN \/ \E cks \in world.jars :
                 /\ cloudflare_cookies' =
                        [cloudflare_cookies EXCEPT ![r] = Some(cks)]
                 /\ pc' = [pc EXCEPT ![r] =
                        IF IsSubmission(request[r]) THEN "replay" ELSE "render"]
                 /\ UNCHANGED exc
            \/ /\ \E e \in world.errors : Catch(r, e)
               /\ UNCHANGED cloudflare_cookies
       ELSE /\ pc' = [pc EXCEPT ![r] =
                   IF IsSubmission(request[r]) THEN "replay" ELSE "render"]
            /\ UNCHANGED <<cloudflare_cookies, exc>>
    /\ UNCHANGED <<globals, routevars, request, start_time, invalid_start, sb, opened,
                   jar, attempt, seen, clicks, last_click, sleeps,
                   cf_clearance, challenge_detected, replayvars, response,
                   raised>>

\* lines 123-209: sb.get_user_agent() is called outside the inner try;
\* sb.execute_script and the reads of its result are inside it
Replay(r) ==
    /\ pc[r] = "replay"
    /\ \/ /\ \E e \in world.errors : Catch(r, e)
          /\ UNCHANGED replayvars
       \/ /\ fetched' = [fetched EXCEPT ![r] =
                 Append(@, script(request[r], cloudflare_cookies[r][1]))]
          /\ \/ \E e \in world.errors :
                  /\ source' = [source EXCEPT ![r] = e]
                  /\ status' = [status EXCEPT ![r] = 500]
                  /\ replay' = [replay EXCEPT ![r] = "raised"]
             \/ \E result \in world.results :
                  /\ source' = [source EXCEPT ![r] = replay_source(result)]
                  /\ status' = [status EXCEPT ![r] = replay_status(result)]
                  /\ replay' = [replay EXCEPT ![r] =
                         CASE result = None -> "raised"
                           [] result = Some(ResultCatch) -> "threw"
                           [] OTHER -> "returned"]
          /\ pc' = [pc EXCEPT ![r] = "build"]
          /\ UNCHANGED exc
    /\ UNCHANGED <<globals, routevars, request, start_time, invalid_start, sb, opened,
                   jar, loopvars, response, raised>>

\* lines 210-212
Render(r) ==
    /\ pc[r] = "render"
    /\ \/ /\ \E e \in world.errors : Catch(r, e)
          /\ UNCHANGED <<source, status>>
       \/ \E page \in world.pages :
            /\ source' = [source EXCEPT ![r] = page]
            /\ status' = [status EXCEPT ![r] = 200]
            /\ pc' = [pc EXCEPT ![r] = "build"]
            /\ UNCHANGED exc
    /\ UNCHANGED <<globals, routevars, request, start_time, invalid_start, sb, opened,
                   jar, loopvars, fetched, replay, response, raised>>

(***************************************************************************)
(* read_item, lines 214-236: the response and the ways out                 *)
(***************************************************************************)
\* variant: the session's cookies are put into the Solution
Build_withCookies(r) ==
    /\ pc[r] = "build"
    /\ \/ /\ \E e \in world.errors : Catch(r, e)
          /\ UNCHANGED response
       \/ /\ response' = [response EXCEPT ![r] =
                 Some(LinkResponse("Success",
                          Solution(current_url(r), status[r],
                                   cloudflare_cookies[r][1], UserAgent,
                                   solution_headers(request[r]), source[r]),
                          start_time[r], endTimestampDefault))]
          /\ pc' = [pc EXCEPT ![r] = "exit"]
          /\ UNCHANGED exc
    /\ UNCHANGED <<globals, routevars, request, start_time, invalid_start, sb,
                   opened, jar, loopvars, replayvars, raised>>

\* lines 214-225: sb.get_user_agent() or sb.get_current_url() may raise
Build(r) ==
    /\ pc[r] = "build"
    /\ \/ /\ \E e \in world.errors : Catch(r, e)
          /\ UNCHANGED response
       \/ /\ response' = [response EXCEPT ![r] =
                 Some(LinkResponse("Success",
                          Solution(current_url(r), status[r], <<>>, UserAgent,
                                   solution_headers(request[r]), source[r]),
                          start_time[r], endTimestampDefault))]
          /\ pc' = [pc EXCEPT ![r] = "exit"]
          /\ UNCHANGED exc
    /\ UNCHANGED <<globals, routevars, request, start_time, invalid_start, sb, opened,
                   jar, loopvars, replayvars, raised>>

\* variant: the session's cookies are stored in the module-level cache
Return_persist(r) ==
    /\ pc[r] = "exit"
    /\ sb' = [sb EXCEPT ![r] = SB_exit(@)]
    /\ pc' = [pc EXCEPT ![r] = "done"]
    /\ cookies' = cloudflare_cookies[r][1]
    /\ UNCHANGED <<now, endTimestampDefault, screenshots, pool, clients, world,
                   routevars, request, start_time, invalid_start, opened, jar,
                   loopvars, replayvars, outvars>>

\* line 236, through the end of the with block
Return(r) ==
    /\ pc[r] = "exit"
    /\ sb' = [sb EXCEPT ![r] = SB_exit(@)]
    /\ pc' = [pc EXCEPT ![r] = "done"]
    /\ UNCHANGED <<globals, routevars, request, start_time, invalid_start, opened, jar,
                   loopvars, replayvars, outvars>>

\* lines 227-234, through the end of the with block
Except(r) ==
    /\ pc[r] = "except"
    /\ sb' = [sb EXCEPT ![r] = SB_exit(driver_quit(@))]
    /\ raised' = [raised EXCEPT ![r] = Some(HTTPException(exc[r][1]))]
    /\ pc' = [pc EXCEPT ![r] = "done"]
    /\ UNCHANGED <<globals, routevars, request, start_time, invalid_start, opened, jar,
                   loopvars, replayvars, exc, response>>

\* the answer is sent; the thread's frame is gone and it takes the next request
Reset(r) ==
    /\ \/ pc[r] = "done" /\ route[r] = "/v1"
       \/ pc[r] = "answered"
    /\ pc' = [pc EXCEPT ![r] = "idle"]
    /\ route' = [route EXCEPT ![r] = ""]
    /\ health' = [health EXCEPT ![r] = None]
    /\ request' = [request EXCEPT ![r] = NoRequest]
    /\ start_time' = [start_time EXCEPT ![r] = 0]
    /\ invalid_start' = [invalid_start EXCEPT ![r] = 0]
    /\ sb' = [sb EXCEPT ![r] = "none"]
    /\ opened' = [opened EXCEPT ![r] = <<>>]
    /\ jar' = [jar EXCEPT ![r] = <<>>]
    /\ attempt' = [attempt EXCEPT ![r] = 0]
    /\ seen' = [seen EXCEPT ![r] = <<>>]
    /\ clicks' = [clicks EXCEPT ![r] = 0]
    /\ last_click' = [last_click EXCEPT ![r] = "none"]
    /\ sleeps' = [sleeps EXCEPT ![r] = 0]
    /\ cloudflare_cookies' = [cloudflare_cookies EXCEPT ![r] = None]
    /\ cf_clearance' = [cf_clearance EXCEPT ![r] = None]
    /\ challenge_detected' = [challenge_detected EXCEPT ![r] = FALSE]
    /\ fetched' = [fetched EXCEPT ![r] = <<>>]
    /\ replay' = [replay EXCEPT ![r] = "none"]
    /\ source' = [source EXCEPT ![r] = ""]
    /\ status' = [status EXCEPT ![r] = 0]
    /\ exc' = [exc EXCEPT ![r] = None]
    /\ response' = [response EXCEPT ![r] = None]
    /\ raised' = [raised EXCEPT ![r] = None]
    /\ UNCHANGED globals

(***************************************************************************)
(* health_check, lines 34-47                                               *)
(***************************************************************************)
\* "https://prowlarr.servarr.com/v1/ping"
HealthUrl ==
    <<"h","t","t","p","s",":","/","/","p","r","o","w",
      "l","a","r","r",".","s","e","r","v","a","r","r",
      ".","c","o","m","/","v","1","/","p","i","n","g">>

\* LinkRequest.model_construct(url=...): the other fields take their defaults
HealthRequest ==
    [url |-> HealthUrl, max_timeout |-> 60, cmd |-> "request.get",
     headers |-> None, postData |-> None]

\* line 37: health_check calls read_item
HealthReceive(r) ==
    /\ pc[r] = "idle"
    /\ r \in pool
    /\ route' = [route EXCEPT ![r] = "/health"]
    /\ Enter(r, HealthRequest)
    /\ UNCHANGED <<globals, health, invalid_start, sb, opened, jar, loopvars,
                   replayvars, outvars>>

\* variant: the status comparison is inverted
HealthAnswer_inverted(r) ==
    /\ pc[r] = "done"
    /\ route[r] = "/health"
    /\ IF raised[r] # None
       THEN UNCHANGED <<health, raised>>
       ELSE IF response[r][1].solution.status = OK
       THEN /\ raised' = [raised EXCEPT ![r] =
                   Some(HTTPException("Health check failed"))]
            /\ UNCHANGED health
       ELSE /\ health' = [health EXCEPT ![r] = Some([status |-> "ok"])]
            /\ UNCHANGED raised
    /\ pc' = [pc EXCEPT ![r] = "answered"]
    /\ UNCHANGED <<globals, route, request, start_time, invalid_start, sb,
                   opened, jar, loopvars, replayvars, exc, response>>

\* lines 41-47: read_item's error propagates; a status other than 200 raises
\* "Health check failed"; else {"status": "ok"}
HealthAnswer(r) ==
    /\ pc[r] = "done"
    /\ route[r] = "/health"
    /\ IF raised[r] # None
       THEN UNCHANGED <<health, raised>>
       ELSE IF response[r][1].solution.status # OK
       THEN /\ raised' = [raised EXCEPT ![r] =
                   Some(HTTPException("Health check failed"))]
            /\ UNCHANGED health
       ELSE /\ health' = [health EXCEPT ![r] = Some([status |-> "ok"])]
            /\ UNCHANGED raised
    /\ pc' = [pc EXCEPT ![r] = "answered"]
    /\ UNCHANGED <<globals, route, request, start_time, invalid_start, sb,
                   opened, jar, loopvars, replayvars, exc, response>>

Next ==
    \/ Tick
    \/ \E r \in Threads :
         \/ \E req \in LinkRequest : Receive(r, req)
         \/ InvalidStart(r)
         \/ InvalidEnd(r)
         \/ Acquire(r)
         \/ Navigate(r)
         \/ Detect(r)
         \/ Click(r)
         \/ Sleep(r)
         \/ AfterLoop(r)
         \/ Replay(r)
         \/ Render(r)
         \/ Build(r)
         \/ Return(r)
         \/ Except(r)
         \/ Reset(r)
         \/ HealthReceive(r)
         \/ HealthAnswer(r)

Spec == Init /\ [][Next]_vars

\* the steps of a request a worker has taken up: every collaborator call
\* returns or raises, and the thread keeps running
Step(r) ==
    \/ InvalidStart(r)
    \/ InvalidEnd(r)
    \/ Acquire(r)
    \/ Navigate(r)
    \/ Detect(r)
    \/ Click(r)
    \/ Sleep(r)
    \/ AfterLoop(r)
    \/ Replay(r)
    \/ Render(r)
    \/ Build(r)
    \/ Return(r)
    \/ Except(r)
    \/ HealthAnswer(r)

\* a submission and a malformed request, each with a short and with the
\* default max_timeout
TimeoutClients ==
    {q \in LinkRequest :
        /\ q.cmd = "request.post"
        /\ q.headers = None
        /\ \/ q.url = UrlHttpsPath /\ q.postData = Some([q |-> "x"])
           \/ q.url = UrlFtp /\ q.postData = None}

InitLive == Setup({1}, TimeoutClients, MaxTime - 1, AnyOutcome)

LiveSpec ==
    InitLive /\ [][Next]_vars /\ \A r \in Threads : WF_vars(Step(r))

\* two worker threads serve requests at the same time: a submission and a
\* malformed request from clients, and the health probe; the target shows an
\* interstitial or its page, the session holds one cookie jar
SharedClients ==
    {q \in LinkRequest :
        /\ q.cmd = "request.post"
        /\ q.headers = None
        /\ q.max_timeout = 60
        /\ \/ q.url = UrlHttpsPath /\ q.postData = Some([q |-> "x"])
           \/ q.url = UrlFtp /\ q.postData = None}

SharedOutcome ==
    [pages |-> {HtmlChallenge, HtmlReal}, jars |-> {<<CookieSid, CookieCf>>},
     results |-> {Some(ResultOk)}, errors |-> {"Message: timeout"}]

InitShared == Setup({1, 2}, SharedClients, MaxTime - 1, SharedOutcome)

SharedSpec == InitShared /\ [][Next]_vars

(***************************************************************************)
(* Vocabulary of the properties                                            *)
(***************************************************************************)
Returned(r) == pc[r] = "done" /\ response[r] # None

Failed(r) == pc[r] = "done" /\ raised[r] # None

\* the url has neither scheme prefix, read off its characters
BadScheme(url) ==
    /\ ~(Len(url) >= 7 /\ SubSeq(url, 1, 7) = <<"h","t","t","p",":","/","/">>)
    /\ ~(Len(url) >= 8 /\ SubSeq(url, 1, 8) = <<"h","t","t","p","s",":","/","/">>)

\* the page is an interstitial: it carries a title of the catalog
Interstitial(page) == page = HtmlChallenge

\* the first n detection checks all saw an interstitial
ChallengedFor(r, n) ==
    /\ Len(seen[r]) >= n
    /\ \A i \in 1..n : Interstitial(seen[r][i])

\* the worker is past the detection loop, at or after replay/render
PastLoop(r) == pc[r] \in {"replay", "render", "build", "exit"}

(***************************************************************************)
(* C1: a request whose url starts with neither "http://" nor "https://"    *)
(* never acquires a browser session, never raises, and is answered with    *)
(* status "error", message "Invalid request" and a Solution of status 500  *)
(* with empty cookies, headers and response.                               *)
(***************************************************************************)
C1_InvalidRequestEnvelope ==
    \A r \in Threads :
        (pc[r] # "idle" /\ BadScheme(request[r].url)) =>
            /\ sb[r] = "none"
            /\ opened[r] = <<>>
            /\ raised[r] = None
            /\ pc[r] \in {"invalid_start", "invalid_end", "done"}
            /\ pc[r] = "done" =>
                 /\ response[r] # None
                 /\ response[r][1].status = "error"
                 /\ response[r][1].message = "Invalid request"
                 /\ response[r][1].solution.status = 500
                 /\ response[r][1].solution.cookies = <<>>
                 /\ response[r][1].solution.headers = <<>>
                 /\ response[r][1].solution.response = ""

C1_Witness ==
    \E r \in Threads :
        /\ Returned(r)
        /\ request[r].url = UrlNearMiss
        /\ response[r][1].status = "error"

(***************************************************************************)
(* C2: when every detection check of a request saw a catalog title (and no *)
(* collaborator call raised), the request fails with HTTP 500 "Could not   *)
(* bypass challenge" after exactly one diagnostic artifact was captured,   *)
(* and no LinkResponse is returned.                                        *)
(***************************************************************************)
C2_UnresolvedFails ==
    \A r \in Threads :
        (pc[r] = "done" /\ ChallengedFor(r, max_retries) /\ exc[r] = None) =>
            /\ response[r] = None
            /\ raised[r] = Some(raise_captcha_bypass_error)
            /\ screenshots = 1

(***************************************************************************)
(* C3: when the target showed a catalog title for exactly N fetches and a  *)
(* clear page afterwards, 0 <= N <= max_retries, a request that proceeds   *)
(* to replay/render has made exactly N clicks and has seen the clear page  *)
(* in a detection check.                                                   *)
(***************************************************************************)
C3_ClearsAfterNCycles ==
    \A r \in Threads : \A n \in 0..max_retries :
        ( /\ pc[r] = "build"
          /\ replay[r] = "none"
          /\ ~Interstitial(source[r])
          /\ ChallengedFor(r, n)
          /\ \A i \in (n + 1)..Len(seen[r]) : ~Interstitial(seen[r][i]) ) =>
            /\ clicks[r] = n
            /\ Len(seen[r]) = n + 1
            /\ ~Interstitial(seen[r][n + 1])

(***************************************************************************)
(* C4: when the first fetched page has no title or a title outside the     *)
(* catalog, the request makes exactly one detection check, no click and no *)
(* backoff sleep, and has left the detection loop.                         *)
(***************************************************************************)
C4_ChallengeFreeFirstCycle ==
    \A r \in Threads :
        (Len(seen[r]) >= 1 /\ ~Interstitial(seen[r][1])) =>
            /\ Len(seen[r]) = 1
            /\ clicks[r] = 0
            /\ sleeps[r] = 0
            /\ last_click[r] = "none"
            /\ pc[r] \notin {"detect", "click", "sleep"}

C4_Witness ==
    \E r \in Threads :
        /\ Returned(r)
        /\ seen[r] = <<HtmlBlank>>
        /\ clicks[r] = 0

(***************************************************************************)
(* C5: when the handler has returned or its error has propagated, the      *)
(* request's session is not running; and an error caught by the handler    *)
(* surfaces as HTTP 500 whose detail is that error's text.                 *)
(***************************************************************************)
C5_SessionReleased ==
    \A r \in Threads :
        pc[r] = "done" =>
            /\ sb[r] # "running"
            /\ opened[r] # <<>> => sb[r] = "terminated"
            /\ exc[r] # None =>
                 /\ response[r] = None
                 /\ raised[r] # None
                 /\ raised[r][1].status_code = 500
                 /\ raised[r][1].detail = exc[r][1]

C5_Witness ==
    \E r \in Threads :
        /\ Failed(r)
        /\ sb[r] = "terminated"
        /\ clicks[r] >= 1
        /\ raised[r][1].detail = "Message: no such window"

(***************************************************************************)
(* C6: when a request has completed successfully the module-level cache    *)
(* holds its session's cookie jar, and a running session was seeded with   *)
(* the cache's cookies.                                                    *)
(***************************************************************************)
C6_CookieCacheRoundTrip ==
    \A r \in Threads :
        /\ (Returned(r) /\ response[r][1].status = "ok") =>
               cookies = cloudflare_cookies[r][1]
        /\ sb[r] = "running" => jar[r] = cookies

(***************************************************************************)
(* C7: in a LinkResponse the pipeline built, solution.status is 200 on the *)
(* render path only with non-challenge content, is the replayed status on  *)
(* the submission path, and is 500 when the replay failed.                 *)
(***************************************************************************)
C7_StatusReflectsReplay ==
    \A r \in Threads :
        (Returned(r) /\ response[r][1].status = "ok") =>
            LET sol == response[r][1].solution
            IN  /\ replay[r] = "none" =>
                     sol.status = 200 /\ ~Interstitial(sol.response)
                /\ replay[r] = "returned" => sol.status \in {200, 403}
                /\ replay[r] \in {"raised", "threw"} => sol.status = 500

(***************************************************************************)
(* C8: every LinkResponse returned has endTimestamp >= startTimestamp.     *)
(***************************************************************************)
C8_EndNotBeforeStart ==
    \A r \in Threads :
        Returned(r) =>
            response[r][1].endTimestamp >= response[r][1].startTimestamp

C10_FailureNotSuccess ==
    \A r \in Threads :
        (Returned(r) /\ response[r][1].solution.status = 500) =>
            /\ response[r][1].message # "Success"
            /\ response[r][1].status # "ok"

(***************************************************************************)
(* C11 as stated: past the detection loop the in-browser exchange is taken *)
(* exactly when the request carries a non-empty postData, whatever cmd is. *)
(***************************************************************************)
HasBody(req) == req.postData # None /\ req.postData[1] # <<>>

C11_ReplayIffBody ==
    \A r \in Threads :
        pc[r] \in {"replay", "render"} =>
            (pc[r] = "replay" <=> HasBody(request[r]))

(***************************************************************************)
(* C11 amended: the in-browser exchange is taken exactly when cmd is       *)
(* "request.post" and postData is non-empty; it is issued at most once;    *)
(* every other request is answered with the rendered page, status 200 and  *)
(* no script-driven fetch.                                                 *)
(***************************************************************************)
C11_ReplayIffPostWithBody ==
    \A r \in Threads :
        LET post == request[r].cmd = "request.post" /\ HasBody(request[r])
        IN  /\ pc[r] \in {"replay", "render"} => (pc[r] = "replay" <=> post)
            /\ Len(fetched[r]) <= 1
            /\ fetched[r] # <<>> => post
            /\ (Returned(r) /\ response[r][1].status = "ok") =>
                 IF post
                 THEN Len(fetched[r]) = 1 /\ replay[r] # "none"
                 ELSE /\ fetched[r] = <<>>
                      /\ replay[r] = "none"
                      /\ response[r][1].solution.status = 200
                      /\ response[r][1].solution.response \in Pages

C11_Witness ==
    \E r \in Threads :
        /\ Returned(r)
        /\ request[r].cmd = "request.get"
        /\ HasBody(request[r])
        /\ fetched[r] = <<>>
        /\ response[r][1].solution.status = 200

(***************************************************************************)
(* C12: GET /health sends the fixed probe url through read_item as a       *)
(* request.get without body (so nothing is replayed), answers              *)
(* {"status": "ok"} exactly when read_item returned a LinkResponse whose   *)
(* solution.status is 200, and in every other case fails with HTTP 500.    *)
(***************************************************************************)
C12_HealthCheck ==
    \A r \in Threads :
        route[r] = "/health" =>
            /\ request[r].cmd = "request.get"
            /\ request[r].postData = None
            /\ Len(request[r].url) = 36
            /\ SubSeq(request[r].url, 1, 8) = <<"h","t","t","p","s",":","/","/">>
            /\ fetched[r] = <<>>
            /\ pc[r] \notin {"invalid_start", "invalid_end", "replay"}
            /\ pc[r] # "answered" => health[r] = None
            /\ pc[r] = "answered" =>
                 /\ health[r] # None <=>
                        (response[r] # None /\ response[r][1].solution.status = 200)
                 /\ health[r] # None => health[r][1] = [status |-> "ok"] /\ raised[r] = None
                 /\ health[r] = None =>
                        raised[r] # None /\ raised[r][1].status_code = 500

C12_Witness ==
    \E r \in Threads :
        /\ pc[r] = "answered"
        /\ health[r] = Some([status |-> "ok"])
        /\ sb[r] = "terminated"
        /\ clicks[r] = max_retries

(***************************************************************************)
(* C13: a click that raised does not end the request or the loop: the      *)
(* worker goes on to the backoff sleep with nothing caught by the outer    *)
(* except, the click counts as the attempt of that cycle, and after the    *)
(* sleep the next detection check follows when an attempt is left,         *)
(* otherwise the loop ends.                                                *)
(***************************************************************************)
C13_ClickFailureSwallowed ==
    [][\A r \in Threads :
         /\ (pc[r] = "click" /\ pc'[r] # pc[r]) =>
              /\ pc'[r] = "sleep"
              /\ exc'[r] = None
              /\ raised'[r] = None
              /\ clicks'[r] = clicks[r] + 1
              /\ clicks'[r] = attempt[r] + 1
              /\ sleeps'[r] = sleeps[r]
         /\ (pc[r] = "sleep" /\ pc'[r] # pc[r] /\ last_click[r] = "raised") =>
              /\ sleeps'[r] = sleeps[r] + 1
              /\ sleeps'[r] = clicks[r]
              /\ exc'[r] = None
              /\ pc'[r] = IF clicks[r] < 3 THEN "detect" ELSE "after_loop"
              /\ pc'[r] = "detect" => attempt'[r] = attempt[r] + 1
      ]_vars

C13_Witness ==
    \E r \in Threads :
        /\ pc[r] = "detect"
        /\ last_click[r] = "raised"
        /\ Len(seen[r]) = 2
        /\ sleeps[r] = 2

(***************************************************************************)
(* C14: a request makes at most 3 detection checks, 3 clicks and 3 backoff *)
(* sleeps whatever its max_timeout, and once taken up it leads to the      *)
(* handler having returned a LinkResponse or raised an HTTP 500.           *)
(***************************************************************************)
C14_BoundedAndTerminates ==
    /\ [](\A r \in Threads :
            /\ Len(seen[r]) <= 3
            /\ clicks[r] <= 3
            /\ sleeps[r] <= 3
            /\ pc[r] = "done" =>
                 /\ (response[r] # None) # (raised[r] # None)
                 /\ raised[r] # None => raised[r][1].status_code = 500)
    /\ \A r \in Threads :
         (pc[r] \notin {"idle", "done", "answered"}) ~> (pc[r] = "done")

C14_Witness ==
    \E r \in Threads :
        /\ Returned(r)
        /\ request[r].max_timeout = 1
        /\ Len(seen[r]) = 3
        /\ clicks[r] = 3
        /\ sleeps[r] = 3

(***************************************************************************)
(* ChallengeState of a request, read off what its detection loop has done: *)
(* Unchecked before the first check, Cleared when the last check saw a     *)
(* page outside the catalog, Unresolved when the last check saw an         *)
(* interstitial and the loop has used up its three turns, else Challenged. *)
(***************************************************************************)
ChallengeState(r) ==
    IF seen[r] = <<>> THEN "Unchecked"
    ELSE IF ~Interstitial(seen[r][Len(seen[r])]) THEN "Cleared"
    ELSE IF Len(seen[r]) = 3 /\ sleeps[r] = 3 THEN "Unresolved"
    ELSE "Challenged"

ChallengeStep ==
    {<<"Unchecked", "Challenged">>, <<"Unchecked", "Cleared">>,
     <<"Challenged", "Challenged">>, <<"Challenged", "Cleared">>,
     <<"Challenged", "Unresolved">>}

(***************************************************************************)
(* C15: within a request the ChallengeState only takes the steps           *)
(* Unchecked -> {Challenged, Cleared} and Challenged -> {Challenged,       *)
(* Cleared, Unresolved}; in Cleared and in Unresolved no further check,    *)
(* click or sleep happens; and a request that has left the loop is in      *)
(* Cleared or in Unresolved.                                               *)
(***************************************************************************)
C15_ChallengeStateMachine ==
    /\ [](\A r \in Threads :
            pc[r] \in {"after_loop", "replay", "render", "build", "exit"} =>
                ChallengeState(r) \in {"Cleared", "Unresolved"})
    /\ [][\A r \in Threads :
            pc[r] \notin {"idle", "done", "answered"} =>
                /\ \/ ChallengeState(r)' = ChallengeState(r)
                   \/ <<ChallengeState(r), ChallengeState(r)'>> \in ChallengeStep
                /\ ChallengeState(r) \in {"Cleared", "Unresolved"} =>
                     /\ seen'[r] = seen[r]
                     /\ clicks'[r] = clicks[r]
                     /\ sleeps'[r] = sleeps[r]
                     /\ pc'[r] \notin {"detect", "click", "sleep"}
         ]_vars

C15_Witness ==
    \E r \in Threads :
        /\ pc[r] = "render"
        /\ ChallengeState(r) = "Cleared"
        /\ Len(seen[r]) = 3
        /\ clicks[r] = 2

(***************************************************************************)
(* C16: with two requests served at the same time, no step changes the     *)
(* module-level cookie cache, which stays empty; no session is seeded from *)
(* it; and the Cookie header a replay sends is built from the cookies of   *)
(* the request's own session.                                              *)
(***************************************************************************)
C16_CookieCacheUntouched ==
    /\ [][cookies' = cookies]_vars
    /\ [](/\ cookies = <<>>
          /\ \A r \in Threads :
               /\ jar[r] = <<>>
               /\ fetched[r] # <<>> =>
                    /\ cloudflare_cookies[r] # None
                    /\ fetched[r][1].headers["Cookie"] = "sid=1; cf_clearance=tok")

C16_Witness ==
    /\ Returned(1)
    /\ response[1][1].status = "ok"
    /\ cloudflare_cookies[1] = Some(<<CookieSid, CookieCf>>)
    /\ pc[2] = "after_loop"
    /\ cloudflare_cookies[2] = None
    /\ cookies = <<>>

(***************************************************************************)
(* C17: a request sends its session to one url at most, once, and that url *)
(* is the origin (scheme and host) of request.url, not the request url     *)
(* when that has a path; a returned render of a request with a path        *)
(* carries a page fetched from that session and the origin as its          *)
(* solution.url.                                                           *)
(***************************************************************************)
OriginOf(url) ==
    CASE url = UrlHttpsPath -> <<"h","t","t","p","s",":","/","/","a">>
      [] url = UrlHttp      -> <<"h","t","t","p",":","/","/","a">>
      [] url = HealthUrl    -> SubSeq(HealthUrl, 1, 28)
      [] OTHER              -> <<>>

C18_HeadersNotMutated ==
    /\ [][\A r \in Threads :
            pc[r] \notin {"idle", "done", "answered"} => request'[r] = request[r]
         ]_vars
    /\ [](\A r \in Threads :
            /\ fetched[r] # <<>> =>
                 /\ DOMAIN fetched[r][1].headers =
                        {"Cookie", "User-Agent"} \cup
                        (IF request[r].headers = None THEN {}
                         ELSE DOMAIN request[r].headers[1])
                 /\ request[r].headers # None =>
                        fetched[r][1].headers["Accept"] = "json"
            /\ (Returned(r) /\ response[r][1].status = "ok") =>
                 /\ request[r].headers = None =>
                        response[r][1].solution.headers = <<>>
                 /\ request[r].headers # None =>
                        response[r][1].solution.headers = [Accept |-> "json"])

C18_Witness ==
    \E r \in Threads :
        /\ Returned(r)
        /\ replay[r] = "returned"
        /\ request[r].headers = Some([Accept |-> "json"])
        /\ response[r][1].solution.headers = [Accept |-> "json"]
        /\ fetched[r][1].headers["Cookie"] = "sid=1"

(***************************************************************************)
(* C19: every LinkResponse returned, built by the pipeline or invalid, has *)
(* an empty solution.cookies, whatever cookies the session holds.          *)
(***************************************************************************)
C19_NoCookiesReturned ==
    \A r \in Threads :
        Returned(r) => response[r][1].solution.cookies = <<>>

C19_Witness ==
    \E r \in Threads :
        /\ Returned(r)
        /\ response[r][1].status = "ok"
        /\ cloudflare_cookies[r] = Some(<<CookieSid, CookieCf>>)
        /\ cf_clearance[r] = Some("tok")
        /\ response[r][1].solution.cookies = <<>>

====
